---- MODULE Spec2Model ----
(***************************************************************************)
(* nitro: the reconciliation and provisioning engine.                      *)
(*                                                                         *)
(*   Spec      the Site Container Reconciler (sitecontainer.StartOrCreate  *)
(*             and create), one serialized caller against the runtime.     *)
(*   SpecInit  the Proxy Bootstrapper (initialize.NewCommand's RunE), one  *)
(*             serialized caller against the runtime.                      *)
(*   SpecComposer  the Ephemeral Task Runner (the composer command's       *)
(*             RunE), one serialized caller against the runtime.           *)
(*   SpecEngine  the three entry points, one of them exercised in each     *)
(*             behaviour.                                                  *)
(*   SpecWait  the reconciler with a caller that may cancel the context,   *)
(*             under fairness: the wait for a provisioning command.        *)
(*   SpecRace  two runs of the Proxy Bootstrapper for one environment,     *)
(*             interleaved call by call.                                   *)
(*   SpecPair  the Ephemeral Task Runner while a second invocation in the  *)
(*             same directory goes through its volume steps.               *)
(*                                                                         *)
(* The container runtime is the environment.  Every call to it either      *)
(* succeeds with the documented effect or returns an error and leaves the  *)
(* runtime as it was; the runtime's refusal of a request (a name that is   *)
(* taken, an unreachable daemon) is one of those errors.  Every call that  *)
(* is issued is appended to the log of the running invocation.             *)
(***************************************************************************)
EXTENDS Integers, Sequences, FiniteSets, TLC

\* ---------------------------------------------------------------- bounds

\* Containers the runtime hands out an id for in one behaviour.
MaxCreates == 2
\* Polls of one exec session that may still see it running.
MaxPolls == 1

\* ---------------------------------------------------------------- helpers

Range(s) == {s[i] : i \in 1..Len(s)}

RECURSIVE SelectOps(_, _)
\* The subsequence of a log made of the entries whose op is in names.
SelectOps(log, names) ==
  IF log = <<>> THEN <<>>
  ELSE IF Head(log).op \in names
       THEN <<Head(log)>> \o SelectOps(Tail(log), names)
       ELSE SelectOps(Tail(log), names)

IsPrefix(s, t) == Len(s) <= Len(t) /\ SubSeq(t, 1, Len(s)) = s

\* Go's map built from a list of pairs: a later pair replaces an earlier one
\* with the same key.
AsMap(s) ==
  [k \in {s[i][1] : i \in 1..Len(s)} |->
     LET last == CHOOSE i \in 1..Len(s) :
                   s[i][1] = k /\ \A j \in (i+1)..Len(s) : s[j][1] # k
     IN  s[last][2]]

\* ---------------------------------------------------------------- sites

Hostnames == {"a.test", "b.test"}
Versions == {"7.4", "8.0"}
Paths == {"/home/u/a", "/home/u/b"}
Dirs == {"web", "public"}
AliasLists ==
  {<<>>, <<"www.test">>, <<"www.test", "m.test">>, <<"m.test", "www.test">>}
EnvLists ==
  {<<>>, << <<"PHP_MEMORY_LIMIT", "512M">> >>,
   << <<"PHP_MEMORY_LIMIT", "512M">>, <<"XDEBUG_MODE", "off">> >>,
   << <<"XDEBUG_MODE", "off">>, <<"PHP_MEMORY_LIMIT", "512M">> >>}
Networks == {"net-dev"}
Home == "/home/u"

AllSites ==
  [Hostname : Hostnames, Aliases : AliasLists, Version : Versions,
   Path : Paths, Dir : Dirs, Envs : EnvLists]

BaseSite(h) ==
  [Hostname |-> h, Aliases |-> <<>>, Version |-> "7.4", Path |-> "/home/u/a",
   Dir |-> "web", Envs |-> <<>>]

DiffFields(s, t) ==
  {f \in {"Aliases", "Version", "Path", "Dir", "Envs"} : s[f] # t[f]}

FarSite(h) ==
  [Hostname |-> h, Aliases |-> <<"www.test">>, Version |-> "8.0",
   Path |-> "/home/u/b", Dir |-> "public",
   Envs |-> << <<"PHP_MEMORY_LIMIT", "512M">> >>]

\* The desired specs handed to the reconciler: for b.test the base spec; for
\* a.test the base spec, one that differs from it in every field, and those
\* one field away from it: another version, path or document root, two
\* aliases in either order, two variables in either order.
Sites ==
  {s \in AllSites :
     LET n == Cardinality(DiffFields(s, BaseSite(s.Hostname)))
     IN  \/ n = 0
         \/ /\ s.Hostname = "a.test"
            /\ \/ s = FarSite("a.test")
               \/ n = 1 /\ Len(s.Aliases) # 1 /\ Len(s.Envs) # 1}

\* NginxImage, fmt.Sprintf("docker.io/craftcms/nginx:%s-dev", version)
NginxImage(version) == <<"docker.io/craftcms/nginx:", version, "-dev">>

\* site.GetAbsPath(home): the site's absolute local path.
GetAbsPath(home, s) == s.Path

\* site.AsEnvs(addr): the site's variables plus the variable that exposes
\* the host machine's address.
AsEnvs(s, addr) == s.Envs \o << <<"NITRO_HOST_ADDRESS", addr>> >>

\* The extra hosts create builds: hostname and every alias on loopback.
ExtraHosts(s) ==
  << <<s.Hostname, "127.0.0.1">> >> \o
  [i \in 1..Len(s.Aliases) |-> <<s.Aliases[i], "127.0.0.1">>]

\* The Drift Detector comparing the variables and the extra hosts as lists.
MatchSite_Ordered(home, s, details) ==
  /\ details.image = NginxImage(s.Version)
  /\ details.mount = GetAbsPath(home, s)
  /\ details.env = AsEnvs(s, "host.docker.internal")
  /\ details.extraHosts = ExtraHosts(s)

\* match.Site(home, site, details): the Drift Detector.
MatchSite(home, s, details) ==
  /\ details.image = NginxImage(s.Version)
  /\ details.mount = GetAbsPath(home, s)
  /\ AsMap(details.env) = AsMap(AsEnvs(s, "host.docker.internal"))
  /\ AsMap(details.extraHosts) = AsMap(ExtraHosts(s))

\* The two post installation commands of a custom document root.
CopyNginxFile == <<"cp", "/tmp/default.conf", "/etc/nginx/conf.d/default.conf">>
SetNginxPermissions == <<"chmod", "0644", "/etc/nginx/conf.d/default.conf">>

\* The commands map of create: empty unless the document root is custom.
Commands(s) ==
  IF s.Dir # "web" THEN {CopyNginxFile, SetNginxPermissions} ELSE {}

\* The orders in which `for _, c := range commands` may visit a map.
RangeOrders(S) ==
  {q \in UNION {[1..n -> S] : n \in {Cardinality(S)}} :
     \A i, j \in 1..Len(q) : i # j => q[i] # q[j]}

\* ---------------------------------------------------------------- state

VARIABLES
  containers,  \* the runtime's site containers (all states)
  nextId,      \* the next container id the runtime hands out
  pc,          \* position of the StartOrCreate invocation
  site,        \* its desired spec
  net,         \* its networkID
  details,     \* the container it found and inspected (id 0: none)
  respID,      \* resp.ID of create
  cmds,        \* the commands create still has to run, in visiting order
  exec,        \* the exec session of the command being run
  polls,       \* inspections of it that saw it running
  ops,         \* the calls the invocation has issued, in order
  res,         \* what the last finished invocation returned
  prev         \* whether the invocation before this one returned a container
               \* for the same arguments, and which; whether it was a rebuild
               \* of the same site that ended in a failed container create

siteVars ==
  <<containers, nextId, pc, site, net, details, respID, cmds, exec, polls,
    ops, res, prev>>

VARIABLES
  networks,    \* the runtime's networks
  volumes,     \* the runtime's volumes
  images,      \* the image references present locally
  proxies,     \* the runtime's proxy containers (all states)
  boot,        \* per invocation of init: its position, inputs and locals
  hist         \* per environment: whether an invocation of init failed and,
               \* as long as none did, the creates they issued

initVars == <<networks, volumes, images, proxies, boot, hist>>

VARIABLES
  tasks,       \* the runtime's composer containers (all states)
  nextTask,    \* the next id the runtime hands out for one
  run          \* the invocation of composer: its position, inputs and locals

taskVars == <<tasks, nextTask, run>>

VARIABLES
  ctx          \* the context the caller handed to StartOrCreate: whether the
               \* caller cancelled it, and how many calls the invocation had
               \* issued when it did

waitVars == <<ctx>>

VARIABLES
  other        \* a second invocation of composer under way at the same time,
               \* as far as it reads and changes the volumes: its position,
               \* path and version

peerVars == <<other>>

vars == <<siteVars, initVars, taskVars, waitVars, peerVars>>

NoContainer ==
  [id |-> 0, name |-> "", host |-> "", image |-> <<>>, mount |-> "",
   env |-> <<>>, extraHosts |-> <<>>, network |-> "", labels |-> <<>>,
   state |-> "none"]

NoExec == [cmd |-> <<>>, running |-> FALSE, exitCode |-> 0]

NoResult == [called |-> FALSE, ok |-> FALSE, id |-> 0, err |-> FALSE]

NoPrev == [same |-> FALSE, id |-> 0, interrupted |-> FALSE]

Op(name, cid, cmd) == [op |-> name, id |-> cid, cmd |-> cmd]

InitSite ==
  /\ containers = {}
  /\ nextId = 1
  /\ pc = "idle"
  /\ site = BaseSite("a.test")
  /\ net = "net-dev"
  /\ details = NoContainer
  /\ respID = 0
  /\ cmds = <<>>
  /\ exec = NoExec
  /\ polls = 0
  /\ ops = <<>>
  /\ res = NoResult
  /\ prev = NoPrev

\* return id, err: the invocation is over and its locals are gone; err records
\* that a call of the invocation returned an error
Return(cid, ok) ==
  /\ pc' = "idle"
  /\ res' = [called |-> TRUE, ok |-> ok, id |-> IF ok THEN cid ELSE 0,
             err |-> ~ok]
  /\ respID' = 0
  /\ cmds' = <<>>
  /\ exec' = NoExec
  /\ polls' = 0

\* the invocation goes on at l
Goto(l) ==
  /\ pc' = l
  /\ UNCHANGED res

Update(cid, st) ==
  {IF c.id = cid THEN [c EXCEPT !.state = st] ELSE c : c \in containers}

\* ------------------------------------------------- StartOrCreate, by step

\* A caller invokes StartOrCreate(ctx, docker, home, networkID, site).
Call ==
  /\ pc = "idle"
  /\ \E s \in Sites, n \in Networks : site' = s /\ net' = n
  /\ prev' = IF res.called /\ res.ok /\ site' = site /\ net' = net
             THEN [NoPrev EXCEPT !.same = TRUE, !.id = res.id]
             ELSE [NoPrev EXCEPT !.interrupted =
                     /\ res.called /\ ~res.ok
                     /\ site'.Hostname = site.Hostname
                     /\ SelectOps(ops, {"ContainerCreate", "ContainerStop",
                                        "ContainerRemove"}) =
                          <<Op("ContainerStop", details.id, <<>>),
                            Op("ContainerRemove", details.id, <<>>),
                            Op("ContainerCreate", 0, <<>>)>>
                     /\ ops[Len(ops)].op = "ContainerCreate"]
  /\ pc' = "list"
  /\ ops' = <<>>
  /\ details' = NoContainer
  /\ res' = [res EXCEPT !.err = FALSE]
  /\ UNCHANGED <<containers, nextId, respID, cmds, exec, polls>>

\* The list with All left false: only running containers are returned.
ListByHost_RunningOnly(hostname) ==
  {c \in containers : c.labels.Host = hostname /\ c.state = "running"}

\* docker.ContainerList with All: true and the filter label=<host label>=hostname.
ListByHost(hostname) == {c \in containers : c.labels.Host = hostname}

\* look for a container for the site; none: create; else take containers[0]
ContainerList ==
  /\ pc = "list"
  /\ ops' = Append(ops, Op("ContainerList", 0, <<>>))
  /\ \/ /\ Return(0, FALSE)
        /\ UNCHANGED details
     \/ /\ ListByHost(site.Hostname) = {}
        /\ Goto("pull")
        /\ UNCHANGED <<details, respID, cmds, exec, polls>>
     \/ /\ \E c \in ListByHost(site.Hostname) :
             details' = [NoContainer EXCEPT !.id = c.id]
        /\ Goto("inspect")
        /\ UNCHANGED <<respID, cmds, exec, polls>>
  /\ UNCHANGED <<containers, nextId, site, net, prev>>

\* The inspect step with the result of match.Site ignored: every found
\* container is rebuilt.
ContainerInspect_AlwaysRebuild ==
  /\ pc = "inspect"
  /\ ops' = Append(ops, Op("ContainerInspect", details.id, <<>>))
  /\ \/ /\ Return(0, FALSE)
        /\ UNCHANGED details
     \/ \E c \in containers :
          /\ c.id = details.id
          /\ details' = c
          /\ Goto("stop")
          /\ UNCHANGED <<respID, cmds, exec, polls>>
  /\ UNCHANGED <<containers, nextId, site, net, prev>>

\* docker.ContainerInspect(container.ID), then the decision on match.Site
ContainerInspect ==
  /\ pc = "inspect"
  /\ ops' = Append(ops, Op("ContainerInspect", details.id, <<>>))
  /\ \/ /\ Return(0, FALSE)
        /\ UNCHANGED details
     \/ \E c \in containers :
          /\ c.id = details.id
          /\ details' = c
          /\ IF ~MatchSite(Home, site, c)
             THEN Goto("stop") /\ UNCHANGED <<respID, cmds, exec, polls>>
             ELSE Return(c.id, TRUE)
  /\ UNCHANGED <<containers, nextId, site, net, prev>>

\* The stop step going straight on to create, the remove left out.
ContainerStop_NoRemove ==
  /\ pc = "stop"
  /\ ops' = Append(ops, Op("ContainerStop", details.id, <<>>))
  /\ \/ /\ Return(0, FALSE)
        /\ UNCHANGED containers
     \/ /\ containers' = Update(details.id, "exited")
        /\ Goto("pull")
        /\ UNCHANGED <<respID, cmds, exec, polls>>
  /\ UNCHANGED <<nextId, site, net, details, prev>>

\* The stop whose error is dropped: the remove is issued all the same.
ContainerStop_ErrorDropped ==
  /\ pc = "stop"
  /\ ops' = Append(ops, Op("ContainerStop", details.id, <<>>))
  /\ \/ /\ pc' = "remove"
        /\ res' = [res EXCEPT !.err = TRUE]
        /\ UNCHANGED <<containers, respID, cmds, exec, polls>>
     \/ /\ containers' = Update(details.id, "exited")
        /\ Goto("remove")
        /\ UNCHANGED <<respID, cmds, exec, polls>>
  /\ UNCHANGED <<nextId, site, net, details, prev>>

\* docker.ContainerStop(container.ID)
ContainerStop ==
  /\ pc = "stop"
  /\ ops' = Append(ops, Op("ContainerStop", details.id, <<>>))
  /\ \/ /\ Return(0, FALSE)
        /\ UNCHANGED containers
     \/ /\ containers' = Update(details.id, "exited")
        /\ Goto("remove")
        /\ UNCHANGED <<respID, cmds, exec, polls>>
  /\ UNCHANGED <<nextId, site, net, details, prev>>

\* The remove step that restarts the stopped container and hands its id
\* back: an in-place patch.
ContainerRemove_InPlace ==
  /\ pc = "remove"
  /\ ops' = Append(ops, Op("ContainerStart", details.id, <<>>))
  /\ \/ /\ Return(0, FALSE)
        /\ UNCHANGED containers
     \/ /\ containers' = Update(details.id, "running")
        /\ Return(details.id, TRUE)
  /\ UNCHANGED <<nextId, site, net, details, prev>>

\* docker.ContainerRemove(container.ID), then create
ContainerRemove ==
  /\ pc = "remove"
  /\ ops' = Append(ops, Op("ContainerRemove", details.id, <<>>))
  /\ \/ /\ Return(0, FALSE)
        /\ UNCHANGED containers
     \/ /\ containers' = {c \in containers : c.id # details.id}
        /\ Goto("pull")
        /\ UNCHANGED <<respID, cmds, exec, polls>>
  /\ UNCHANGED <<nextId, site, net, details, prev>>

\* ---------------------------------------------------------- create, by step

\* docker.ImagePull of the site's image and the read of its output
ImagePull ==
  /\ pc = "pull"
  /\ ops' = Append(ops, Op("ImagePull", 0, NginxImage(site.Version)))
  /\ \/ Return(0, FALSE)
     \/ Goto("abspath") /\ UNCHANGED <<respID, cmds, exec, polls>>
  /\ UNCHANGED <<containers, nextId, site, net, details, prev>>

\* path, err := site.GetAbsPath(home)
AbsPath ==
  /\ pc = "abspath"
  /\ \/ Return(0, FALSE)
     \/ Goto("create") /\ UNCHANGED <<respID, cmds, exec, polls>>
  /\ UNCHANGED <<containers, nextId, site, net, details, ops, prev>>

\* The labels a site container is created with.
SiteLabels(s) == [Nitro |-> "true", Host |-> s.Hostname]

\* The container docker.ContainerCreate is asked for.
NewContainer(cid, s, networkID) ==
  [id |-> cid, name |-> s.Hostname, host |-> s.Hostname,
   image |-> NginxImage(s.Version), mount |-> GetAbsPath(Home, s),
   env |-> AsEnvs(s, "host.docker.internal"), extraHosts |-> ExtraHosts(s),
   network |-> networkID, labels |-> SiteLabels(s), state |-> "created"]

\* The create that puts the container it replaced back when it fails.
ContainerCreate_Rollback ==
  /\ pc = "create"
  /\ ops' = Append(ops, Op("ContainerCreate", 0, <<>>))
  /\ \/ /\ Return(0, FALSE)
        /\ containers' = IF details.state # "none"
                         THEN containers \cup {[details EXCEPT !.state = "exited"]}
                         ELSE containers
        /\ UNCHANGED nextId
     \/ /\ nextId <= MaxCreates
        /\ containers' = containers \cup {NewContainer(nextId, site, net)}
        /\ respID' = nextId
        /\ nextId' = nextId + 1
        /\ Goto("start")
        /\ UNCHANGED <<cmds, exec, polls>>
  /\ UNCHANGED <<site, net, details, prev>>

\* docker.ContainerCreate
ContainerCreate ==
  /\ pc = "create"
  /\ ops' = Append(ops, Op("ContainerCreate", 0, <<>>))
  /\ \/ /\ Return(0, FALSE)
        /\ UNCHANGED <<containers, nextId>>
     \/ /\ nextId <= MaxCreates
        /\ containers' = containers \cup {NewContainer(nextId, site, net)}
        /\ respID' = nextId
        /\ nextId' = nextId + 1
        /\ Goto("start")
        /\ UNCHANGED <<cmds, exec, polls>>
  /\ UNCHANGED <<site, net, details, prev>>

\* docker.ContainerStart(resp.ID), then the check for a custom root
ContainerStart ==
  /\ pc = "start"
  /\ ops' = Append(ops, Op("ContainerStart", respID, <<>>))
  /\ \/ /\ Return(0, FALSE)
        /\ UNCHANGED containers
     \/ /\ containers' = Update(respID, "running")
        /\ IF site.Dir # "web"
           THEN Goto("archive") /\ UNCHANGED <<respID, cmds, exec, polls>>
           ELSE Return(respID, TRUE)
  /\ UNCHANGED <<nextId, site, net, details, prev>>

\* nginx.Generate(site.Dir) and archive.Generate("default.conf", conf)
ArchiveGenerate ==
  /\ pc = "archive"
  /\ \/ Return(0, FALSE)
     \/ Goto("copy") /\ UNCHANGED <<respID, cmds, exec, polls>>
  /\ UNCHANGED <<containers, nextId, site, net, details, ops, prev>>

\* docker.CopyToContainer(resp.ID, "/tmp", tr); the two commands are put in
\* the map, and the loop over the map starts in one of its orders.
CopyToContainer ==
  /\ pc = "copy"
  /\ ops' = Append(ops, Op("CopyToContainer", respID, <<"/tmp", "default.conf">>))
  /\ \/ Return(0, FALSE)
     \/ /\ cmds' \in RangeOrders(Commands(site))
        /\ Goto("execCreate")
        /\ UNCHANGED <<respID, exec, polls>>
  /\ UNCHANGED <<containers, nextId, site, net, details, prev>>

\* docker.ContainerExecCreate(resp.ID, {User: root, Cmd: c})
ContainerExecCreate ==
  /\ pc = "execCreate"
  /\ ops' = Append(ops, Op("ContainerExecCreate", respID, Head(cmds)))
  /\ \/ Return(0, FALSE)
     \/ /\ exec' = [cmd |-> Head(cmds), running |-> FALSE, exitCode |-> 0]
        /\ polls' = 0
        /\ Goto("execAttach")
        /\ UNCHANGED <<respID, cmds>>
  /\ UNCHANGED <<containers, nextId, site, net, details, prev>>

\* docker.ContainerExecAttach(exec.ID)
ContainerExecAttach ==
  /\ pc = "execAttach"
  /\ ops' = Append(ops, Op("ContainerExecAttach", respID, exec.cmd))
  /\ \/ Return(0, FALSE)
     \/ Goto("stdcopy") /\ UNCHANGED <<respID, cmds, exec, polls>>
  /\ UNCHANGED <<containers, nextId, site, net, details, prev>>

\* stdcopy.StdCopy(os.Stdout, os.Stderr, attach.Reader)
StdCopy ==
  /\ pc = "stdcopy"
  /\ \/ Return(0, FALSE)
     \/ Goto("execStart") /\ UNCHANGED <<respID, cmds, exec, polls>>
  /\ UNCHANGED <<containers, nextId, site, net, details, ops, prev>>

\* docker.ContainerExecStart(exec.ID)
ContainerExecStart ==
  /\ pc = "execStart"
  /\ ops' = Append(ops, Op("ContainerExecStart", respID, exec.cmd))
  /\ \/ Return(0, FALSE)
     \/ /\ exec' = [exec EXCEPT !.running = TRUE]
        /\ Goto("execInspect")
        /\ UNCHANGED <<respID, cmds, polls>>
  /\ UNCHANGED <<containers, nextId, site, net, details, prev>>

\* The command exits inside the container, with some exit code.
ExecExit ==
  /\ exec.running
  /\ \E code \in {0, 1} :
       exec' = [exec EXCEPT !.running = FALSE, !.exitCode = code]
  /\ UNCHANGED <<containers, nextId, pc, site, net, details, respID, cmds,
                 polls, ops, res, prev>>

\* A docker.ContainerExecInspect that returned, with what it reported.
Inspected(cid, e) ==
  [op |-> "ContainerExecInspect", id |-> cid, cmd |-> e.cmd,
   running |-> e.running, exitCode |-> e.exitCode]

\* The wait that returns an error when the command exited with a code that
\* is not zero.
ContainerExecInspect_ExitChecked ==
  /\ pc = "execInspect"
  /\ exec.running => polls < MaxPolls
  /\ \/ /\ ops' = Append(ops, Op("ContainerExecInspect", respID, exec.cmd))
        /\ Return(0, FALSE)
     \/ /\ exec.running
        /\ ops' = Append(ops, Inspected(respID, exec))
        /\ polls' = polls + 1
        /\ Goto("execInspect")
        /\ UNCHANGED <<respID, cmds, exec>>
     \/ /\ ~exec.running
        /\ ops' = Append(ops, Inspected(respID, exec))
        /\ IF exec.exitCode # 0
           THEN Return(0, FALSE)
           ELSE Goto("restart") /\ UNCHANGED <<respID, cmds, exec, polls>>
  /\ UNCHANGED <<containers, nextId, site, net, details, prev>>

\* The wait that gives up when the context is cancelled while the session
\* still reports running.
ContainerExecInspect_Cancellable ==
  /\ pc = "execInspect"
  /\ exec.running => polls < MaxPolls
  /\ \/ /\ ops' = Append(ops, Op("ContainerExecInspect", respID, exec.cmd))
        /\ Return(0, FALSE)
     \/ /\ exec.running
        /\ ops' = Append(ops, Inspected(respID, exec))
        /\ IF ctx.done
           THEN Return(0, FALSE)
           ELSE /\ polls' = polls + 1
                /\ Goto("execInspect")
                /\ UNCHANGED <<respID, cmds, exec>>
     \/ /\ ~exec.running
        /\ ops' = Append(ops, Inspected(respID, exec))
        /\ Goto("restart")
        /\ UNCHANGED <<respID, cmds, exec, polls>>
  /\ UNCHANGED <<containers, nextId, site, net, details, prev>>

\* One turn of `for waiting`: docker.ContainerExecInspect(exec.ID),
\* waiting = resp.Running.
ContainerExecInspect ==
  /\ pc = "execInspect"
  /\ exec.running => polls < MaxPolls
  /\ \/ /\ ops' = Append(ops, Op("ContainerExecInspect", respID, exec.cmd))
        /\ Return(0, FALSE)
     \/ /\ exec.running
        /\ ops' = Append(ops, Inspected(respID, exec))
        /\ polls' = polls + 1
        /\ Goto("execInspect")
        /\ UNCHANGED <<respID, cmds, exec>>
     \/ /\ ~exec.running
        /\ ops' = Append(ops, Inspected(respID, exec))
        /\ Goto("restart")
        /\ UNCHANGED <<respID, cmds, exec, polls>>
  /\ UNCHANGED <<containers, nextId, site, net, details, prev>>

\* docker.ContainerStart(resp.ID) at the end of the loop body, then the next
\* command, or return resp.ID, nil
ContainerRestart ==
  /\ pc = "restart"
  /\ ops' = Append(ops, Op("ContainerStart", respID, <<>>))
  /\ \/ /\ Return(0, FALSE)
        /\ UNCHANGED containers
     \/ /\ containers' = Update(respID, "running")
        /\ IF Tail(cmds) # <<>>
           THEN /\ cmds' = Tail(cmds)
                /\ Goto("execCreate")
                /\ UNCHANGED <<respID, exec, polls>>
           ELSE Return(respID, TRUE)
  /\ UNCHANGED <<nextId, site, net, details, prev>>

create ==
  \/ ImagePull
  \/ AbsPath
  \/ ContainerCreate
  \/ ContainerStart
  \/ ArchiveGenerate
  \/ CopyToContainer
  \/ ContainerExecCreate
  \/ ContainerExecAttach
  \/ StdCopy
  \/ ContainerExecStart
  \/ ContainerExecInspect
  \/ ContainerRestart

StartOrCreate ==
  \/ ContainerList
  \/ ContainerInspect
  \/ ContainerStop
  \/ ContainerRemove
  \/ create

\* ------------------------------------------------------ the caller's context

\* A context that is not cancelled.
Background == [done |-> FALSE, at |-> 0]

\* The caller cancels the context of the invocation that is under way.
\* StartOrCreate and create hand ctx to every runtime call and read it
\* nowhere themselves, so no local of the invocation changes.
Cancel ==
  /\ pc # "idle"
  /\ ~ctx.done
  /\ ctx' = [done |-> TRUE, at |-> Len(ops)]
  /\ UNCHANGED siteVars

\* --------------------------------------------------- init: names and ports

\* Names are strings of characters, so that the runtime's fuzzy name filter
\* can be computed.
Dev == <<"d", "e", "v">>
DevHost == <<"d", "e", "v", "-", "h", "o", "s", "t">>
EnvNames == {Dev, DevHost}

\* The runtime's name filter: the filter value occurs in the name.
Contains(name, sub) ==
  \E i \in 0..(Len(name) - Len(sub)) : SubSeq(name, i + 1, i + Len(sub)) = sub

Digits == <<"0", "1", "2", "3", "4", "5", "6", "7", "8", "9">>

IsDigit(ch) == \E i \in 1..Len(Digits) : Digits[i] = ch

DigitValue(ch) == (CHOOSE i \in 1..Len(Digits) : Digits[i] = ch) - 1

RECURSIVE Decimal(_)
\* The number a string of digits spells.
Decimal(s) ==
  IF s = <<>> THEN 0
  ELSE 10 * Decimal(SubSeq(s, 1, Len(s) - 1)) + DigitValue(s[Len(s)])

NoPort == [num |-> -1, proto |-> ""]

\* nat.NewPort(proto, port): the port must parse as an unsigned 16 bit number;
\* otherwise the zero Port and an error.
NewPort(proto, s) ==
  IF s # <<>> /\ (\A i \in 1..Len(s) : IsDigit(s[i])) /\ Decimal(s) < 65536
  THEN [port |-> [num |-> Decimal(s), proto |-> proto], err |-> FALSE]
  ELSE [port |-> NoPort, err |-> TRUE]

Roles == <<"http", "https", "api", "xdebug">>

\* The port each role falls back to, as written in the source.
DefaultPort ==
  [http |-> <<"8", "0">>, https |-> <<"4", "4", "3">>,
   api |-> <<"5", "0", "0", "0">>, xdebug |-> <<"9", "0", "0", "3">>]

\* The host port each role is bound to, as written in the source.
HostPort ==
  [http |-> <<"8", "0">>, https |-> <<"4", "4", "3">>,
   api |-> <<"5", "0", "0", "0">>, xdebug |-> <<"9", "0", "0", "3">>]

Unset == <<>>
Custom == <<"8", "0", "8", "0">>
Malformed == <<"a", "b", "c">>

AllUnset == [r \in Range(Roles) |-> Unset]

\* The values of NITRO_HTTP_PORT, NITRO_HTTPS_PORT, NITRO_API_PORT and
\* NITRO_XDEBUG_PORT an invocation for env may see: none set, or, for dev, one
\* of them set to a number or to something that is no number.
PortEnvs(env) ==
  {AllUnset} \cup
  {[AllUnset EXCEPT ![r] = v] :
     r \in IF env = Dev THEN Range(Roles) ELSE {}, v \in {Custom, Malformed}}

\* The switch on os.Getenv(...) for one role.  checked: the error of
\* nat.NewPort is assigned to err; otherwise it is dropped and the err tested
\* is the one left by the statements before.
ResolveRole(value, default, checked, errBefore) ==
  IF value = Unset
  THEN NewPort("tcp", default)
  ELSE LET r == NewPort("tcp", value)
       IN  [port |-> r.port, err |-> IF checked THEN r.err ELSE errBefore]

\* The four switches in order; the first error returns.
ResolvePorts(getenv) ==
  LET http   == ResolveRole(getenv.http, DefaultPort.http, TRUE, FALSE)
      https  == ResolveRole(getenv.https, DefaultPort.https, FALSE, http.err)
      api    == ResolveRole(getenv.api, DefaultPort.api, FALSE, https.err)
      xdebug == ResolveRole(getenv.xdebug, DefaultPort.xdebug, FALSE, api.err)
  IN  [err |-> http.err \/ https.err \/ api.err \/ xdebug.err,
       ports |-> [http |-> http.port, https |-> https.port,
                  api |-> api.port, xdebug |-> xdebug.port]]

\* ExposedPorts: nat.PortSet{httpPort, httpsPort, apiPort, xdebugPort}
ExposedPorts(ports) == {ports[Roles[i]] : i \in 1..Len(Roles)}

\* PortBindings: map[nat.Port][]nat.PortBinding{httpPort: {127.0.0.1, "80"}, ...}
PortBindings(ports) ==
  AsMap([i \in 1..Len(Roles) |->
           <<ports[Roles[i]],
             [HostIP |-> "127.0.0.1", HostPort |-> HostPort[Roles[i]]]>>])

\* ------------------------------------------------------------ init, by step

Procs == {1, 2}

NoId == <<<<>>, 0>>

NoProxy ==
  [id |-> NoId, name |-> <<>>, proxy |-> <<>>, env |-> <<>>, exposed |-> {},
   bindings |-> <<>>, volume |-> <<>>, network |-> NoId, labels |-> <<>>,
   state |-> "none"]

Idle ==
  [pc |-> "idle", env |-> Dev, getenv |-> AllUnset,
   networkID |-> NoId, volume |-> <<>>, containerID |-> NoId,
   proxyRunning |-> FALSE, ports |-> [r \in Range(Roles) |-> NoPort],
   before |-> NoProxy, listed |-> [networks |-> {}, volumes |-> {}],
   ops |-> <<>>, called |-> FALSE, ok |-> FALSE, err |-> FALSE]

NoHist == [ran |-> FALSE, failed |-> FALSE, networks |-> 0, volumes |-> 0, proxies |-> 0]

\* How far the creates of one environment are counted.
CountCap == 2

Count(n) == IF n < CountCap THEN n + 1 ELSE n

InitBoot ==
  /\ networks = {}
  /\ volumes = {}
  /\ images = {}
  /\ proxies = {}
  /\ boot = [p \in Procs |-> Idle]
  /\ hist = [e \in EnvNames |-> NoHist]

\* craftcms/nitro-proxy:<version.Version>
ProxyImage == <<"craftcms/nitro-proxy:", "version.Version">>

Log(p, name) == Append(boot[p].ops, Op(name, 0, <<>>))

\* The id the runtime gives the next resource of a kind that has this name.
NewId(resources, name) ==
  <<name, 1 + Cardinality({r \in resources : r.name = name})>>

Failed == [NoHist EXCEPT !.failed = TRUE]

\* return err / return nil
Finish(p, ok, log) ==
  /\ boot' = [boot EXCEPT ![p].pc = "idle", ![p].called = TRUE, ![p].ok = ok,
                          ![p].err = ~ok, ![p].ops = log]
  /\ hist' = [hist EXCEPT ![boot[p].env] =
                IF ok /\ ~@.failed THEN [@ EXCEPT !.ran = TRUE] ELSE Failed]

\* A create is issued for the environment of p.
Counted(p, kind) ==
  IF hist[boot[p].env].failed THEN hist
  ELSE [hist EXCEPT ![boot[p].env][kind] = Count(@)]

\* `nitro init --environment env` is run.
RunE(p) ==
  /\ boot[p].pc = "idle"
  /\ \E e \in EnvNames : \E g \in PortEnvs(e) :
       boot' = [boot EXCEPT ![p] =
                  [Idle EXCEPT !.pc = "networkList", !.env = e, !.getenv = g,
                               !.before =
                                  IF \E c \in proxies : c.proxy = e /\ c.name = e
                                  THEN CHOOSE c \in proxies : c.proxy = e /\ c.name = e
                                  ELSE NoProxy]]
  /\ UNCHANGED <<networks, volumes, images, proxies, hist>>

\* The exact match left out: whatever the fuzzy filter returned is taken.
ExactName_Fuzzy(name, env) == Contains(name, env)

\* n.Name == env, v.Name == env
ExactName(name, env) == name = env

\* docker.NetworkList with the name filter, then the loop for an exact match
\* The create issued whatever the list returned.
NetworkList_AlwaysCreate(p) ==
  /\ boot[p].pc = "networkList"
  /\ LET env == boot[p].env
         found == {n \in networks : Contains(n.name, env)}
     IN  \/ /\ Finish(p, FALSE, Log(p, "NetworkList"))
         \/ /\ boot' = [boot EXCEPT ![p].pc = "networkCreate",
                                    ![p].listed.networks = found,
                                    ![p].ops = Log(p, "NetworkList")]
            /\ UNCHANGED hist
  /\ UNCHANGED <<networks, volumes, images, proxies>>

NetworkList(p) ==
  /\ boot[p].pc = "networkList"
  /\ LET env == boot[p].env
         found == {n \in networks : Contains(n.name, env)}
         exact == {n \in found : ExactName(n.name, env)}
     IN  \/ /\ Finish(p, FALSE, Log(p, "NetworkList"))
         \/ /\ exact = {}
            /\ boot' = [boot EXCEPT ![p].pc = "networkCreate",
                                    ![p].listed.networks = found,
                                    ![p].ops = Log(p, "NetworkList")]
            /\ UNCHANGED hist
         \/ /\ \E n \in exact :
                 boot' = [boot EXCEPT ![p].pc = "volumeList",
                                      ![p].networkID = n.id,
                                      ![p].listed.networks = found,
                                      ![p].ops = Log(p, "NetworkList")]
            /\ UNCHANGED hist
  /\ UNCHANGED <<networks, volumes, images, proxies>>

\* The labels the network of an environment is created with.
NetworkLabels(env) == [Environment |-> env, Network |-> env]

\* The network created and the volume step left out.
NetworkCreate_SkipVolume(p) ==
  /\ boot[p].pc = "networkCreate"
  /\ LET env == boot[p].env
         id == NewId(networks, env)
     IN  \/ /\ Finish(p, FALSE, Log(p, "NetworkCreate"))
            /\ UNCHANGED networks
         \/ /\ networks' = networks \cup
                           {[id |-> id, name |-> env, labels |-> NetworkLabels(env)]}
            /\ boot' = [boot EXCEPT ![p].pc = "imageList",
                                    ![p].networkID = id,
                                    ![p].ops = Log(p, "NetworkCreate")]
            /\ hist' = Counted(p, "networks")
  /\ UNCHANGED <<volumes, images, proxies>>

\* docker.NetworkCreate(ctx, env, ...), networkID = resp.ID
NetworkCreate(p) ==
  /\ boot[p].pc = "networkCreate"
  /\ LET env == boot[p].env
         id == NewId(networks, env)
     IN  \/ /\ Finish(p, FALSE, Log(p, "NetworkCreate"))
            /\ UNCHANGED networks
         \/ /\ networks' = networks \cup
                           {[id |-> id, name |-> env, labels |-> NetworkLabels(env)]}
            /\ boot' = [boot EXCEPT ![p].pc = "volumeList",
                                    ![p].networkID = id,
                                    ![p].ops = Log(p, "NetworkCreate")]
            /\ hist' = Counted(p, "networks")
  /\ UNCHANGED <<volumes, images, proxies>>

\* docker.VolumeList with the name filter, then the loop for an exact match
VolumeList(p) ==
  /\ boot[p].pc = "volumeList"
  /\ LET env == boot[p].env
         found == {v \in volumes : Contains(v.name, env)}
         exact == {v \in found : ExactName(v.name, env)}
     IN  \/ /\ Finish(p, FALSE, Log(p, "VolumeList"))
         \/ /\ exact = {}
            /\ boot' = [boot EXCEPT ![p].pc = "volumeCreate",
                                    ![p].listed.volumes = found,
                                    ![p].ops = Log(p, "VolumeList")]
            /\ UNCHANGED hist
         \/ /\ \E v \in exact :
                 boot' = [boot EXCEPT ![p].pc = "imageList",
                                      ![p].volume = v.name,
                                      ![p].listed.volumes = found,
                                      ![p].ops = Log(p, "VolumeList")]
            /\ UNCHANGED hist
  /\ UNCHANGED <<networks, volumes, images, proxies>>

\* The labels the volume of an environment is created with.
VolumeLabels(env) == [Environment |-> env, Volume |-> env]

\* docker.VolumeCreate(ctx, {Name: env, ...}), volume = &resp
VolumeCreate(p) ==
  /\ boot[p].pc = "volumeCreate"
  /\ LET env == boot[p].env
     IN  \/ /\ Finish(p, FALSE, Log(p, "VolumeCreate"))
            /\ UNCHANGED volumes
         \/ /\ volumes' = volumes \cup {[name |-> env, labels |-> VolumeLabels(env)]}
            /\ boot' = [boot EXCEPT ![p].pc = "imageList",
                                    ![p].volume = env,
                                    ![p].ops = Log(p, "VolumeCreate")]
            /\ hist' = Counted(p, "volumes")
  /\ UNCHANGED <<networks, images, proxies>>

\* docker.ImageList with the reference filter
ImageList(p) ==
  /\ boot[p].pc = "imageList"
  /\ \/ Finish(p, FALSE, Log(p, "ImageList"))
     \/ /\ boot' = [boot EXCEPT ![p].pc = IF ProxyImage \in images
                                          THEN "containerList"
                                          ELSE "imagePull",
                                ![p].ops = Log(p, "ImageList")]
        /\ UNCHANGED hist
  /\ UNCHANGED <<networks, volumes, images, proxies>>

\* docker.ImagePull of the proxy image and the read of its output
ProxyImagePull(p) ==
  /\ boot[p].pc = "imagePull"
  /\ \/ /\ Finish(p, FALSE, Log(p, "ImagePull"))
        /\ UNCHANGED images
     \/ /\ images' = images \cup {ProxyImage}
        /\ boot' = [boot EXCEPT ![p].pc = "containerList",
                                ![p].ops = Log(p, "ImagePull")]
        /\ UNCHANGED hist
  /\ UNCHANGED <<networks, volumes, proxies>>

\* The names the runtime reports for a container: its name after a slash.
Names(c) == {<<"/">> \o c.name}

\* The name compared without the slash the runtime puts in front of it.
NameMatches_NoSlash(n, env) == n = env

\* n == env || n == "/"+env
NameMatches(n, env) == n = env \/ n = <<"/">> \o env

\* The proxy created on every run, found or not.
NeedsCreate_Always(containerID) == TRUE

\* if containerID == "": the proxy has to be created
NeedsCreate(containerID) == containerID = NoId

\* docker.ContainerList with All: true and the filter label=<proxy label>=env,
\* then the loop over the containers and their names
ProxyContainerList(p) ==
  /\ boot[p].pc = "containerList"
  /\ LET env == boot[p].env
         hits == {c \in proxies :
                    c.labels.Proxy = env /\ \E n \in Names(c) : NameMatches(n, env)}
         running == \E c \in hits : c.state = "running"
     IN  \/ /\ Finish(p, FALSE, Log(p, "ContainerList"))
         \/ /\ \E cid \in IF hits = {} THEN {NoId} ELSE {c.id : c \in hits} :
                 boot' = [boot EXCEPT ![p].pc = IF NeedsCreate(cid)
                                                THEN "ports"
                                                ELSE "containerStart",
                                      ![p].containerID = cid,
                                      ![p].proxyRunning = running,
                                      ![p].ops = Log(p, "ContainerList")]
            /\ UNCHANGED hist
  /\ UNCHANGED <<networks, volumes, images, proxies>>

\* set ports: the four switches on the port variables
SetPorts(p) ==
  /\ boot[p].pc = "ports"
  /\ LET r == ResolvePorts(boot[p].getenv)
     IN  IF r.err
         THEN Finish(p, FALSE, Log(p, "NewPort"))
         ELSE /\ boot' = [boot EXCEPT ![p].pc = "containerCreate",
                                      ![p].ports = r.ports,
                                      ![p].ops = Log(p, "NewPort")]
              /\ UNCHANGED hist
  /\ UNCHANGED <<networks, volumes, images, proxies>>

\* The labels the proxy container of an environment is created with.
ProxyLabels(env) ==
  [Type |-> "proxy", Environment |-> env, Proxy |-> env,
   ProxyVersion |-> "version.Version"]

\* The container docker.ContainerCreate is asked for.
NewProxy(cid, b) ==
  [id |-> cid, name |-> b.env, proxy |-> b.env, env |-> b.env,
   exposed |-> ExposedPorts(b.ports), bindings |-> PortBindings(b.ports),
   volume |-> b.volume, network |-> b.networkID, labels |-> ProxyLabels(b.env),
   state |-> "created"]

\* docker.ContainerCreate of the proxy, containerID = resp.ID
ProxyContainerCreate(p) ==
  /\ boot[p].pc = "containerCreate"
  /\ LET id == NewId(proxies, boot[p].env)
     IN  \/ /\ Finish(p, FALSE, Log(p, "ContainerCreate"))
            /\ UNCHANGED proxies
         \/ /\ proxies' = proxies \cup {NewProxy(id, boot[p])}
            /\ boot' = [boot EXCEPT ![p].pc = "containerStart",
                                    ![p].containerID = id,
                                    ![p].ops = Log(p, "ContainerCreate")]
            /\ hist' = Counted(p, "proxies")
  /\ UNCHANGED <<networks, volumes, images>>

\* if !proxyRunning: docker.ContainerStart(containerID); then the skip-apply
\* flag
ProxyContainerStart(p) ==
  /\ boot[p].pc = "containerStart"
  /\ \E skipApply \in BOOLEAN :
       LET after == IF skipApply THEN "done" ELSE "apply"
       IN  IF boot[p].proxyRunning
           THEN /\ boot' = [boot EXCEPT ![p].pc = after]
                /\ UNCHANGED <<proxies, hist>>
           ELSE \/ /\ Finish(p, FALSE, Log(p, "ContainerStart"))
                   /\ UNCHANGED proxies
                \/ /\ proxies' = {IF c.id = boot[p].containerID
                                  THEN [c EXCEPT !.state = "running"]
                                  ELSE c : c \in proxies}
                   /\ boot' = [boot EXCEPT ![p].pc = after,
                                           ![p].ops = Log(p, "ContainerStart")]
                   /\ UNCHANGED hist
  /\ UNCHANGED <<networks, volumes, images>>

\* the apply and the trust command of the parent are run
Apply(p) ==
  /\ boot[p].pc = "apply"
  /\ \/ Finish(p, FALSE, Log(p, "Apply"))
     \/ /\ boot' = [boot EXCEPT ![p].pc = "done", ![p].ops = Log(p, "Apply")]
        /\ UNCHANGED hist
  /\ UNCHANGED <<networks, volumes, images, proxies>>

\* return nil
Done(p) ==
  /\ boot[p].pc = "done"
  /\ Finish(p, TRUE, boot[p].ops)
  /\ UNCHANGED <<networks, volumes, images, proxies>>

init(p) ==
  \/ RunE(p)
  \/ NetworkList(p)
  \/ NetworkCreate(p)
  \/ VolumeList(p)
  \/ VolumeCreate(p)
  \/ ImageList(p)
  \/ ProxyImagePull(p)
  \/ ProxyContainerList(p)
  \/ SetPorts(p)
  \/ ProxyContainerCreate(p)
  \/ ProxyContainerStart(p)
  \/ Apply(p)
  \/ Done(p)

\* ------------------------------------------------- composer: names and inputs

GOOS == {"linux", "windows"}

\* os.PathSeparator of the platform the binary is built for.
PathSeparator(goos) == IF goos = "windows" THEN "\\" ELSE "/"

\* The volume name an absolute path starts with: a drive on windows.
VolumeName(goos) == IF goos = "windows" THEN <<"C", ":">> ELSE <<>>

\* The working directories composer is run in, below the root, by component.
WorkDirs == { << <<"A">> >>, << <<"_", "w">>, <<"B">> >> }

RECURSIVE Join(_, _)
\* The components of a path joined by a separator.
Join(comps, sep) ==
  IF Len(comps) = 1 THEN Head(comps)
  ELSE Head(comps) \o <<sep>> \o Join(Tail(comps), sep)

\* The components of the absolute path of a working directory.
Components(goos, dir) == <<VolumeName(goos)>> \o dir

\* filepath.Abs(os.Getwd()): absolute, with the platform's separator.
Abs(goos, dir) == Join(Components(goos, dir), PathSeparator(goos))

UpperCase == <<"A", "B", "C">>
LowerCase == <<"a", "b", "c">>

\* strings.ToLower
ToLower(s) ==
  [i \in 1..Len(s) |->
     IF \E k \in 1..Len(UpperCase) : UpperCase[k] = s[i]
     THEN LowerCase[CHOOSE k \in 1..Len(UpperCase) : UpperCase[k] = s[i]]
     ELSE s[i]]

\* strings.Replace(s, old, new, -1) for a one character old and new
Replace(s, old, new) == [i \in 1..Len(s) |-> IF s[i] = old THEN new ELSE s[i]]

RECURSIVE TrimLeft(_, _)
\* strings.TrimLeft(s, cutset)
TrimLeft(s, cutset) ==
  IF s # <<>> /\ Head(s) \in cutset THEN TrimLeft(Tail(s), cutset) ELSE s

Composer == <<"c", "o", "m", "p", "o", "s", "e", "r">>

\* name(path, version) with the leading separators left in place.
nameOn_NoTrim(sep, path, version) ==
  Replace(Replace(ToLower(path \o <<"_">> \o Composer \o <<"_">> \o version),
                  sep, "_"),
          ":", "_")

\* name(path, version) on a platform whose os.PathSeparator is sep.
nameOn(sep, path, version) ==
  TrimLeft(Replace(Replace(ToLower(path \o <<"_">> \o Composer \o <<"_">> \o version),
                           sep, "_"),
                   ":", "_"),
           {"_"})

\* The value of --composer-version on the command line; Unset: not given.
VersionFlags == {Unset, <<"1">>}

\* if version == "" { version = "2" }
ComposerVersion(flag) == IF flag = Unset THEN <<"2">> ELSE flag

\* fmt.Sprintf("docker.io/library/%s:%s", "composer", version)
ComposerImage(version) == <<"docker.io/library/", "composer", ":", version>>

\* The labels of a cache volume.
CacheLabels(path) == [Type |-> "composer", Path |-> path]

\* ------------------------------------------------------- composer, by step

\* Task containers the runtime hands out an id for in one behaviour.
MaxTasks == 2

\* The zero value of types.Volume.
NoVolume == [name |-> <<>>, labels |-> <<>>]

InitTask(goos) ==
  /\ tasks = {}
  /\ nextTask = 1
  /\ run = [pc |-> "idle", goos |-> goos, dir |-> <<>>, path |-> <<>>,
            version |-> <<>>, volumeName |-> <<>>, pathVolume |-> NoVolume,
            containerID |-> 0, stream |-> FALSE, copied |-> FALSE,
            before |-> {}, ops |-> <<>>, called |-> FALSE, ok |-> FALSE,
            err |-> FALSE]

TLog(opname, cid) == Append(run.ops, Op(opname, cid, <<>>))

\* return err / return nil
TFinish(ok, log) ==
  run' = [run EXCEPT !.pc = "idle", !.called = TRUE, !.ok = ok, !.err = ~ok,
                     !.ops = log]

\* the invocation goes on at l, the call logged
TGoto(l, log) == run' = [run EXCEPT !.pc = l, !.ops = log]

\* name(path, version) in the running binary
name(path, version) == nameOn(PathSeparator(run.goos), path, version)

\* `nitro composer <args>`: the version is taken from the arguments, the
\* working directory is made absolute, and unless the action is
\* create-project a composer.json has to be there.
TaskRunE ==
  /\ run.pc = "idle"
  /\ \E dir \in WorkDirs, flag \in VersionFlags,
        action \in {"install", "create-project"}, exists \in BOOLEAN :
       LET r == [run EXCEPT !.dir = dir, !.path = Abs(run.goos, dir),
                            !.version = ComposerVersion(flag),
                            !.volumeName = <<>>, !.pathVolume = NoVolume,
                            !.containerID = 0, !.stream = FALSE,
                            !.copied = FALSE,
                            !.before = {c.id : c \in tasks},
                            !.ops = <<>>, !.called = FALSE, !.ok = FALSE,
                            !.err = FALSE]
       IN  IF action # "create-project" /\ ~exists
           THEN run' = [r EXCEPT !.called = TRUE]
           ELSE run' = [r EXCEPT !.pc = "imageList"]
  /\ UNCHANGED <<tasks, nextTask, images, volumes>>

\* docker.ImageList with the reference filter
TaskImageList ==
  /\ run.pc = "imageList"
  /\ \/ TFinish(FALSE, TLog("ImageList", 0))
     \/ TGoto(IF ComposerImage(run.version) \in images
              THEN "volumeList" ELSE "imagePull", TLog("ImageList", 0))
  /\ UNCHANGED <<tasks, nextTask, images, volumes>>

\* docker.ImagePull of the composer image and the read of its output
TaskImagePull ==
  /\ run.pc = "imagePull"
  /\ \/ /\ TFinish(FALSE, TLog("ImagePull", 0))
        /\ UNCHANGED images
     \/ /\ images' = images \cup {ComposerImage(run.version)}
        /\ TGoto("volumeList", TLog("ImagePull", 0))
  /\ UNCHANGED <<tasks, nextTask, volumes>>

\* The volumes carrying every label of the filter.
ListByLabels(labels) ==
  {v \in volumes :
     \A k \in DOMAIN labels : k \in DOMAIN v.labels /\ v.labels[k] = labels[k]}

\* docker.VolumeList with the labels type=composer and path=<path>, then
\* volumeName := name(path, version) and the switch on the number found
TaskVolumeList ==
  /\ run.pc = "volumeList"
  /\ LET found == ListByLabels(CacheLabels(run.path))
         log == TLog("VolumeList", 0)
         r == [run EXCEPT !.volumeName = name(run.path, run.version),
                          !.ops = log]
     IN  \/ TFinish(FALSE, log)
         \/ /\ Cardinality(found) = 1
            /\ \E v \in found :
                 run' = [r EXCEPT !.pc = "containerCreate", !.pathVolume = v]
         \/ /\ Cardinality(found) = 0
            /\ run' = [r EXCEPT !.pc = "volumeCreate"]
         \/ /\ Cardinality(found) > 1
            /\ run' = [r EXCEPT !.pc = "containerCreate"]
  /\ UNCHANGED <<tasks, nextTask, images, volumes>>

\* docker.VolumeCreate(ctx, {Name: volumeName, Labels: type, path}); the
\* runtime hands back the volume of that name when there is one
TaskVolumeCreate ==
  /\ run.pc = "volumeCreate"
  /\ LET new == [name |-> run.volumeName, labels |-> CacheLabels(run.path)]
         had == {v \in volumes : v.name = run.volumeName}
     IN  \/ /\ TFinish(FALSE, TLog("VolumeCreate", 0))
            /\ UNCHANGED volumes
         \/ /\ had = {}
            /\ volumes' = volumes \cup {new}
            /\ run' = [run EXCEPT !.pc = "containerCreate", !.pathVolume = new,
                                  !.ops = TLog("VolumeCreate", 0)]
         \/ /\ \E v \in had :
                 run' = [run EXCEPT !.pc = "containerCreate", !.pathVolume = v,
                                    !.ops = TLog("VolumeCreate", 0)]
            /\ UNCHANGED volumes
  /\ UNCHANGED <<tasks, nextTask, images>>

\* composer.CreateContainer(ctx, docker, opts): a container of the image with
\* the working directory and opts.Volume mounted.
TaskContainerCreate ==
  /\ run.pc = "containerCreate"
  /\ \/ /\ TFinish(FALSE, TLog("ContainerCreate", 0))
        /\ UNCHANGED <<tasks, nextTask>>
     \/ /\ nextTask <= MaxTasks
        /\ tasks' = tasks \cup
                      {[id |-> nextTask, volume |-> run.pathVolume.name,
                        path |-> run.path, state |-> "created"]}
        /\ nextTask' = nextTask + 1
        /\ run' = [run EXCEPT !.pc = "attach", !.containerID = nextTask,
                              !.ops = TLog("ContainerCreate", 0)]
  /\ UNCHANGED <<images, volumes>>

\* The attach whose error is dropped: the invocation goes on without a stream.
TaskContainerAttach_ErrorDropped ==
  /\ run.pc = "attach"
  /\ \/ TGoto("start", TLog("ContainerAttach", run.containerID))
     \/ run' = [run EXCEPT !.pc = "start", !.stream = TRUE,
                           !.ops = TLog("ContainerAttach", run.containerID)]
  /\ UNCHANGED <<tasks, nextTask, images, volumes>>

\* docker.ContainerAttach(ctx, container.ID, {Stream, Stdout, Stderr, Logs})
TaskContainerAttach ==
  /\ run.pc = "attach"
  /\ \/ TFinish(FALSE, TLog("ContainerAttach", run.containerID))
     \/ run' = [run EXCEPT !.pc = "start", !.stream = TRUE,
                           !.ops = TLog("ContainerAttach", run.containerID)]
  /\ UNCHANGED <<tasks, nextTask, images, volumes>>

SetTask(cid, st) ==
  {IF c.id = cid THEN [c EXCEPT !.state = st] ELSE c : c \in tasks}

\* docker.ContainerStart(ctx, container.ID)
TaskContainerStart ==
  /\ run.pc = "start"
  /\ \/ /\ TFinish(FALSE, TLog("ContainerStart", run.containerID))
        /\ UNCHANGED tasks
     \/ /\ tasks' = SetTask(run.containerID, "running")
        /\ TGoto("stdcopy", TLog("ContainerStart", run.containerID))
  /\ UNCHANGED <<nextTask, images, volumes>>

\* The copy of the output that removes the container when it fails.
TaskStdCopy_Cleanup ==
  /\ run.pc = "stdcopy"
  /\ \/ /\ TFinish(FALSE, TLog("ContainerRemove", run.containerID))
        /\ tasks' = {c \in tasks : c.id # run.containerID}
     \/ /\ tasks' = SetTask(run.containerID, "exited")
        /\ run' = [run EXCEPT !.pc = "remove", !.copied = TRUE]
  /\ UNCHANGED <<nextTask, images, volumes>>

\* stdcopy.StdCopy(os.Stdout, os.Stderr, stream.Reader): the output is copied
\* until the container has exited and the stream ends
TaskStdCopy ==
  /\ run.pc = "stdcopy"
  /\ \/ /\ TFinish(FALSE, run.ops)
        /\ UNCHANGED tasks
     \/ /\ tasks' = SetTask(run.containerID, "exited")
        /\ run' = [run EXCEPT !.pc = "remove", !.copied = TRUE]
  /\ UNCHANGED <<nextTask, images, volumes>>

\* docker.ContainerRemove(ctx, container.ID), return nil
TaskContainerRemove ==
  /\ run.pc = "remove"
  /\ \/ /\ TFinish(FALSE, TLog("ContainerRemove", run.containerID))
        /\ UNCHANGED tasks
     \/ /\ tasks' = {c \in tasks : c.id # run.containerID}
        /\ TFinish(TRUE, TLog("ContainerRemove", run.containerID))
  /\ UNCHANGED <<nextTask, images, volumes>>

\* --------------------------------------- a second invocation of composer

NoOther == [pc |-> "idle", path |-> <<>>, version |-> <<>>]

\* The working directory the two invocations of composer are run in.
SharedDir == << <<"A">> >>

\* The second invocation, started in that directory of a linux host with
\* some version, has come to its volume query: docker.VolumeList with the
\* labels of its path, then the switch on the number of volumes.  With no
\* volume it goes on to create one; with one or more, or when the list
\* fails, it changes no volume.
OtherVolumeList ==
  /\ other.pc = "idle"
  /\ \E flag \in VersionFlags :
       LET path == Abs("linux", SharedDir)
       IN  /\ ListByLabels(CacheLabels(path)) = {}
           /\ other' = [pc |-> "volumeCreate", path |-> path,
                        version |-> ComposerVersion(flag)]
  /\ UNCHANGED volumes

\* Its docker.VolumeCreate with the name of its path and version.
OtherVolumeCreate ==
  /\ other.pc = "volumeCreate"
  /\ LET new == [name |-> nameOn(PathSeparator("linux"), other.path, other.version),
                 labels |-> CacheLabels(other.path)]
     IN  \/ UNCHANGED volumes
         \/ /\ \A v \in volumes : v.name # new.name
            /\ volumes' = volumes \cup {new}
  /\ other' = NoOther

composer ==
  \/ TaskRunE
  \/ TaskImageList
  \/ TaskImagePull
  \/ TaskVolumeList
  \/ TaskVolumeCreate
  \/ TaskContainerCreate
  \/ TaskContainerAttach
  \/ TaskContainerStart
  \/ TaskStdCopy
  \/ TaskContainerRemove

\* ------------------------------------------------------------ specifications

Init ==
  /\ InitSite /\ InitBoot /\ InitTask("linux")
  /\ ctx = Background /\ other = NoOther

Next ==
  \/ Call /\ UNCHANGED <<initVars, taskVars, waitVars, peerVars>>
  \/ StartOrCreate /\ UNCHANGED <<initVars, taskVars, waitVars, peerVars>>
  \/ ExecExit /\ UNCHANGED <<initVars, taskVars, waitVars, peerVars>>

\* Serialized calls of StartOrCreate against the runtime.
Spec == Init /\ [][Next]_vars

NextInit == init(1) /\ UNCHANGED <<siteVars, taskVars, waitVars, peerVars>>

\* Serialized runs of init against the runtime.
SpecInit == Init /\ [][NextInit]_vars

InitComposer ==
  /\ InitSite /\ InitBoot /\ ctx = Background /\ other = NoOther
  /\ \E goos \in GOOS : InitTask(goos)

NextComposer ==
  composer /\ UNCHANGED <<siteVars, networks, proxies, boot, hist, waitVars, peerVars>>

\* Serialized runs of composer against the runtime, on either platform.
SpecComposer == InitComposer /\ [][NextComposer]_vars

\* One of the three entry points is exercised while the other two have not
\* been called; StartOrCreate is called for the sites of one hostname.
NextEngine ==
  \/ /\ networks = {} /\ proxies = {} /\ boot = [p \in Procs |-> Idle]
     /\ InitTask("linux")
     /\ Next
     /\ site'.Hostname = "a.test"
  \/ /\ InitSite
     /\ InitTask("linux")
     /\ NextInit
  \/ /\ InitSite
     /\ networks = {} /\ proxies = {} /\ boot = [p \in Procs |-> Idle]
     /\ NextComposer

\* The engine: in each behaviour serialized calls of one of StartOrCreate,
\* init and composer.
SpecEngine == Init /\ [][NextEngine]_vars

\* Two invocations of `nitro init` for the environment dev, with no port
\* set in the process environment, each run once; their steps interleave,
\* every runtime call being one step.
NextRace ==
  \E p \in Procs :
    /\ boot[p].pc = "idle" => ~boot[p].called
    /\ init(p)
    /\ boot'[p].env = Dev
    /\ boot'[p].getenv = AllUnset
    /\ UNCHANGED <<siteVars, taskVars, waitVars, peerVars>>

\* Concurrent runs of init against one runtime.
SpecRace == Init /\ [][NextRace]_vars

\* Runs of composer on a linux host in one working directory, while a
\* second invocation in that directory goes through its volume steps.
NextPair ==
  \/ /\ composer /\ run'.dir = SharedDir
     /\ UNCHANGED <<siteVars, networks, proxies, boot, hist, waitVars, peerVars>>
  \/ /\ OtherVolumeList
     /\ UNCHANGED <<siteVars, networks, images, proxies, boot, hist, taskVars,
                    waitVars>>
  \/ /\ OtherVolumeCreate
     /\ UNCHANGED <<siteVars, networks, images, proxies, boot, hist, taskVars,
                    waitVars>>

SpecPair == Init /\ [][NextPair]_vars

\* The sites whose provisioning is waited for: the base spec, which has no
\* command to run, and the one with another document root, which has two.
WaitSites ==
  {BaseSite("a.test"), [BaseSite("a.test") EXCEPT !.Dir = "public"]}

\* A step of the invocation of StartOrCreate that is under way.
Step == StartOrCreate /\ UNCHANGED <<initVars, taskVars, waitVars, peerVars>>

\* The command of the exec session exits.
Exit == ExecExit /\ UNCHANGED <<initVars, taskVars, waitVars, peerVars>>

NextWait ==
  \/ /\ Call /\ site' \in WaitSites
     /\ ctx' = Background
     /\ UNCHANGED <<initVars, taskVars, peerVars>>
  \/ Step
  \/ Exit
  \/ Cancel /\ UNCHANGED <<initVars, taskVars, peerVars>>

\* Serialized calls of StartOrCreate whose caller may cancel the context.
\* The invocation is synchronous code that keeps running, and every exec
\* session that runs ends at some time.
SpecWait ==
  Init /\ [][NextWait]_vars /\ WF_vars(Step) /\ WF_vars(Exit)

\* ------------------------------------------------------------------ claims

Rebuilding == {"ContainerCreate", "ContainerStop", "ContainerRemove"}

\* The invocation that just returned, returned a container id and no error.
Returned == pc = "idle" /\ res.called /\ res.ok

\* The invocation found a container for the site and inspected it.
Found == details.state # "none"

\* C1: a StartOrCreate that follows a successful StartOrCreate with the same
\* arguments returns the same container id and issues no container create,
\* stop or remove.
C1_Idempotent ==
  (Returned /\ prev.same) =>
     /\ res.id = prev.id
     /\ SelectOps(ops, Rebuilding) = <<>>

C1_Witness ==
  /\ Returned
  /\ prev.same
  /\ site.Dir = "public"
  /\ \E i \in 1..Len(ops) : ops[i].op = "ContainerInspect"

\* The observed container differs from the desired spec in image, mount
\* source or environment variables.
Drifted(s, c) ==
  \/ c.image # NginxImage(s.Version)
  \/ c.mount # GetAbsPath(Home, s)
  \/ AsMap(c.env) # AsMap(AsEnvs(s, "host.docker.internal"))

\* C2: once an invocation has found a container that differs from the desired
\* spec in a tracked attribute, the creates, stops and removes it issues are
\* one stop of that container, then one remove of it, then one create, and it
\* issues all three when it returns a container.
C2_SingleRebuild ==
  (Found /\ Drifted(site, details)) =>
     LET full == <<Op("ContainerStop", details.id, <<>>),
                   Op("ContainerRemove", details.id, <<>>),
                   Op("ContainerCreate", 0, <<>>)>>
     IN  /\ IsPrefix(SelectOps(ops, Rebuilding), full)
         /\ Returned => SelectOps(ops, Rebuilding) = full

C2_Witness ==
  /\ Returned
  /\ Found
  /\ details.image # NginxImage(site.Version)
  /\ details.mount # GetAbsPath(Home, site)
  /\ AsMap(details.env) # AsMap(AsEnvs(site, "host.docker.internal"))
  /\ Len(SelectOps(ops, Rebuilding)) = 3

\* C3: in every state, also between the steps of an invocation and after one
\* that failed part-way, the runtime holds at most one container per network
\* and site hostname.
C3_AtMostOne ==
  \A h \in Hostnames, n \in Networks :
     Cardinality({c \in containers : c.host = h /\ c.network = n}) <= 1

C3_Witness ==
  /\ pc = "idle"
  /\ res.called
  /\ ~res.ok
  /\ \E c \in containers : c.host = site.Hostname /\ c.state = "created"
  /\ \E c \in containers : c.host # site.Hostname

\* C4: when an invocation that went into the rebuild returns a container, its
\* id is not the id of the container it found, and that container is gone.
C4_FreshId ==
  (Returned /\ Found /\ ~MatchSite(Home, site, details)) =>
     /\ res.id # details.id
     /\ \A c \in containers : c.id # details.id
     /\ \E c \in containers : c.id = res.id

C4_Witness ==
  /\ Returned
  /\ Found
  /\ ~MatchSite(Home, site, details)
  /\ res.id # details.id

\* C10: the first reconciliation of a site with a custom document root, when
\* it returns a container, has created one container, started it, copied one
\* archive into it after the start, run cp and then chmod, and left the
\* container running.
C10_ScenarioB ==
  (Returned /\ ~Found /\ site.Dir # "web") =>
     /\ Len(SelectOps(ops, {"ContainerCreate"})) = 1
     /\ Head(SelectOps(ops, {"ContainerStart", "CopyToContainer"})).op = "ContainerStart"
     /\ SelectOps(ops, {"ContainerCreate", "CopyToContainer", "ContainerExecStart"}) =
          <<Op("ContainerCreate", 0, <<>>),
            Op("CopyToContainer", res.id, <<"/tmp", "default.conf">>),
            Op("ContainerExecStart", res.id, CopyNginxFile),
            Op("ContainerExecStart", res.id, SetNginxPermissions)>>
     /\ \E c \in containers : c.id = res.id /\ c.state = "running"

\* The invocation of init the claims look at.
Boot == boot[1]

\* The ops of a log.
OpNames(log) == {log[i].op : i \in 1..Len(log)}

\* The proxy container this invocation created.
CreatedProxy ==
  {c \in proxies : c.id = Boot.containerID /\ "ContainerCreate" \in OpNames(Boot.ops)}

\* The port a role is to be served on: the override when it is a number, the
\* default when there is none.
Wanted(r) ==
  IF Boot.getenv[r] = Unset THEN NewPort("tcp", DefaultPort[r])
  ELSE NewPort("tcp", Boot.getenv[r])

\* C5: the proxy container an invocation creates exposes, for each role, the
\* override when it is a valid number and the default when it is unset, and
\* publishes it to 127.0.0.1 at that same number.
C5_PortPrecedence ==
  \A c \in CreatedProxy : \A r \in Range(Roles) :
     ~Wanted(r).err =>
        /\ Wanted(r).port \in c.exposed
        /\ Wanted(r).port \in DOMAIN c.bindings
        /\ c.bindings[Wanted(r).port].HostIP = "127.0.0.1"
        /\ Decimal(c.bindings[Wanted(r).port].HostPort) = Wanted(r).port.num

\* C6: an invocation that found no proxy container and whose override for
\* some role is not a number creates no container and returns an error.
C6_MalformedFails ==
  \A r \in Range(Roles) :
     (Boot.before = NoProxy /\ Boot.getenv[r] # Unset /\ Wanted(r).err) =>
        /\ CreatedProxy = {}
        /\ (Boot.pc = "idle" /\ Boot.called) => ~Boot.ok

\* C7: of the networks and volumes the name filter returned, only one named
\* exactly as the environment is reused, with no create; when none is named
\* so, one is created under that name, whatever else the filter returned.
C7_ExactMatch ==
  LET exactN == {n \in Boot.listed.networks : n.name = Boot.env}
      exactV == {v.name : v \in {w \in Boot.listed.volumes : w.name = Boot.env}}
  IN  /\ Boot.networkID # NoId =>
           IF exactN # {}
           THEN /\ Boot.networkID \in {n.id : n \in exactN}
                /\ "NetworkCreate" \notin OpNames(Boot.ops)
           ELSE /\ "NetworkCreate" \in OpNames(Boot.ops)
                /\ \E n \in networks : n.id = Boot.networkID /\ n.name = Boot.env
                /\ Boot.networkID \notin {n.id : n \in Boot.listed.networks}
      /\ Boot.volume # <<>> =>
           IF exactV # {}
           THEN /\ Boot.volume \in exactV
                /\ "VolumeCreate" \notin OpNames(Boot.ops)
           ELSE /\ "VolumeCreate" \in OpNames(Boot.ops)
                /\ Boot.volume = Boot.env
                /\ Boot.volume \in {v.name : v \in volumes}
                /\ Boot.volume \notin {v.name : v \in Boot.listed.volumes}

C7_Witness ==
  /\ Boot.env = Dev
  /\ {n.name : n \in Boot.listed.networks} = {Dev, DevHost}
  /\ Boot.networkID = <<Dev, 1>>
  /\ {v.name : v \in Boot.listed.volumes} = {DevHost}
  /\ Boot.volume = Dev
  /\ Boot.pc = "idle"
  /\ Boot.ok

\* C8: as long as no invocation for an environment has failed, once one has
\* returned, one network create, one volume create and one proxy container
\* create have been issued for it, it has one network, its volume and one
\* proxy container, and that container is running.
C8_CreatedOnce ==
  \A e \in EnvNames :
     (Boot.pc = "idle" /\ hist[e].ran /\ ~hist[e].failed) =>
        /\ hist[e].networks = 1
        /\ hist[e].volumes = 1
        /\ hist[e].proxies = 1
        /\ Cardinality({n \in networks : n.name = e}) = 1
        /\ Cardinality({v \in volumes : v.name = e}) = 1
        /\ Cardinality({c \in proxies : c.name = e}) = 1
        /\ \A c \in proxies : c.name = e => c.state = "running"

C8_Witness ==
  /\ Boot.pc = "idle"
  /\ Boot.ok
  /\ Boot.before # NoProxy
  /\ Boot.env = Dev
  /\ hist[Dev].ran
  /\ hist[DevHost].ran

\* C9: an invocation that runs when the proxy container of its environment
\* exists resolves no port, issues no container create, stop or remove, and
\* leaves the ports the container exposes and publishes as they were.
C9_PortsFixed ==
  Boot.before # NoProxy =>
     /\ OpNames(Boot.ops) \cap
          {"NewPort", "ContainerCreate", "ContainerStop", "ContainerRemove"} = {}
     /\ \E c \in proxies :
          /\ c.id = Boot.before.id
          /\ c.exposed = Boot.before.exposed
          /\ c.bindings = Boot.before.bindings
     /\ Cardinality({c \in proxies : c.name = Boot.env}) = 1

C9_Witness ==
  /\ Boot.pc = "idle"
  /\ Boot.ok
  /\ Boot.before # NoProxy
  /\ Boot.getenv.http = Malformed
  /\ NewPort("tcp", DefaultPort.http).port \in Boot.before.exposed

\* C11: in every invocation of composer a container start is issued only
\* after the attach to that container has returned a stream; when the attach
\* fails no start is issued.
C11_AttachBeforeStart ==
  \A i \in 1..Len(run.ops) :
     run.ops[i].op = "ContainerStart" =>
        /\ run.stream
        /\ \E j \in 1..(i - 1) :
             run.ops[j] = Op("ContainerAttach", run.ops[i].id, <<>>)

C11_Witness ==
  /\ run.pc = "idle"
  /\ run.ok
  /\ run.stream
  /\ Op("ContainerStart", run.containerID, <<>>) \in Range(run.ops)

\* C12: the container of an invocation of composer is a new one, created
\* once; when the start and the copy of the output went through, a remove of
\* it has been issued by the time the invocation returns; when the copy of
\* the output failed after the start, the invocation returns an error, has
\* issued no remove, and the container is still in the runtime.
C12_Cleanup ==
  LET cid == run.containerID
      returned == run.pc = "idle" /\ run.called
  IN  /\ cid # 0 =>
           /\ cid \notin run.before
           /\ Len(SelectOps(run.ops, {"ContainerCreate"})) = 1
      /\ "ContainerAttach" \in OpNames(run.ops) => cid # 0
      /\ (returned /\ run.copied) =>
           Op("ContainerRemove", cid, <<>>) \in Range(run.ops)
      /\ (returned /\ ~run.copied /\ \E c \in tasks : c.id = cid /\ c.state = "running") =>
           /\ ~run.ok
           /\ "ContainerRemove" \notin OpNames(run.ops)
      /\ (returned /\ ~run.copied /\ Op("ContainerStart", cid, <<>>) \in Range(run.ops)) =>
           \E c \in tasks : c.id = cid

C12_Witness ==
  /\ run.pc = "idle"
  /\ run.called
  /\ ~run.ok
  /\ ~run.copied
  /\ run.before # {}
  /\ \E c \in tasks : c.id = run.containerID /\ c.state = "running"

\* C13: the volume mounted into the container of an invocation of composer is
\* the volume named name(path, version), and that volume exists.
C13_CacheVolume ==
  \A c \in tasks :
     c.id = run.containerID =>
        /\ c.volume = name(run.path, run.version)
        /\ \E v \in volumes : v.name = c.volume

\* C14: the identity an invocation computes is name of its path and version;
\* it is in lower case, holds no path separator and no colon, does not begin
\* with an underscore, and is the same when the components of the path are
\* joined by the separator of the other platform and named there.
C14_NamePure ==
  run.volumeName # <<>> =>
     /\ run.volumeName = nameOn(PathSeparator(run.goos), run.path, run.version)
     /\ run.volumeName = ToLower(run.volumeName)
     /\ \A i \in 1..Len(run.volumeName) :
          run.volumeName[i] \notin {PathSeparator(run.goos), ":"}
     /\ Head(run.volumeName) # "_"
     /\ \A goos \in GOOS :
          nameOn(PathSeparator(goos),
                 Join(Components(run.goos, run.dir), PathSeparator(goos)),
                 run.version) = run.volumeName

C14_Witness ==
  /\ run.goos = "windows"
  /\ run.path = <<"C", ":", "\\", "_", "w", "\\", "B">>
  /\ run.version = <<"2">>
  /\ run.volumeName =
       <<"c", "_", "_", "_", "w", "_", "b", "_"
         , "c", "o", "m", "p", "o", "s", "e", "r", "_", "2">>

\* The labels of a resource include these keys.
HasLabels(r, keys) == keys \subseteq DOMAIN r.labels

\* C15: every network, volume, proxy container and site container in the
\* runtime carries the environment label and the label of its role, a site
\* container also the label of its hostname and the proxy that of its version.
C15_IdentityLabels ==
  /\ \A n \in networks : HasLabels(n, {"Environment", "Network"})
  /\ \A v \in volumes : HasLabels(v, {"Environment", "Volume"})
  /\ \A c \in proxies : HasLabels(c, {"Environment", "Type", "Proxy", "ProxyVersion"})
  /\ \A c \in containers :
       /\ HasLabels(c, {"Environment", "Type", "Host"})
       /\ c.labels.Host = c.name

\* The steps of a bootstrap run, in the order of the sequence.
BootOrder ==
  <<"NetworkList", "NetworkCreate", "VolumeList", "VolumeCreate", "ImageList",
    "ImagePull", "ContainerList", "ContainerCreate", "ContainerStart", "Apply">>

Rank(op) == CHOOSE i \in 1..Len(BootOrder) : BootOrder[i] = op

\* C16: the steps an invocation of init has issued are in the order network
\* list/create, volume list/create, image list/pull, container list/create,
\* container start, dependent provisioning, none twice and no list left out;
\* every create, pull and start that is followed by a later step has taken
\* effect, and what it made is in the runtime, also after the run has failed.
C16_StrictOrder ==
  LET log == SelectOps(Boot.ops, Range(BootOrder))
  IN  /\ \A i, j \in 1..Len(log) : i < j => Rank(log[i].op) < Rank(log[j].op)
      /\ \A j \in 1..Len(log) :
           \A op \in {"NetworkList", "VolumeList", "ImageList", "ContainerList"} :
              Rank(op) < Rank(log[j].op) => \E i \in 1..(j - 1) : log[i].op = op
      /\ \A i \in 1..(Len(log) - 1) :
           /\ log[i].op = "NetworkCreate" =>
                \E n \in networks : n.id = Boot.networkID /\ n.name = Boot.env
           /\ log[i].op = "VolumeCreate" =>
                \E v \in volumes : v.name = Boot.volume /\ v.name = Boot.env
           /\ log[i].op = "ImagePull" => ProxyImage \in images
           /\ log[i].op = "ContainerCreate" =>
                \E c \in proxies : c.id = Boot.containerID /\ c.name = Boot.env
           /\ log[i].op = "ContainerStart" =>
                \E c \in proxies : c.id = Boot.containerID /\ c.state = "running"

C16_Witness ==
  /\ Boot.pc = "idle"
  /\ Boot.called
  /\ ~Boot.ok
  /\ {"NetworkCreate", "VolumeCreate", "ImagePull", "ContainerCreate"}
       \subseteq OpNames(Boot.ops)
  /\ Boot.ops[Len(Boot.ops)].op = "ContainerStart"
  /\ \E c \in proxies : c.id = Boot.containerID /\ c.state = "created"

\* C17: once a call of an invocation has returned an error, the invocation is
\* over: it has returned an error to its caller and issues no further call.
C17_ErrorsFatal ==
  /\ res.err => (pc = "idle" /\ res.called /\ ~res.ok)
  /\ Boot.err => (Boot.pc = "idle" /\ Boot.called /\ ~Boot.ok)
  /\ run.err => (run.pc = "idle" /\ run.called /\ ~run.ok)

C17_Witness ==
  /\ res.err
  /\ pc = "idle"
  /\ Found
  /\ ops # <<>>
  /\ ops[Len(ops)].op = "ContainerRemove"
  /\ \E c \in containers : c.id = details.id /\ c.state = "exited"

\* The invocation that just returned was a rebuild whose stop and remove went
\* through and whose container create failed.
Interrupted ==
  /\ pc = "idle" /\ res.called /\ ~res.ok
  /\ SelectOps(ops, Rebuilding) =
       <<Op("ContainerStop", details.id, <<>>),
         Op("ContainerRemove", details.id, <<>>),
         Op("ContainerCreate", 0, <<>>)>>
  /\ ops[Len(ops)].op = "ContainerCreate"

\* C18: after a rebuild whose stop and remove went through and whose create
\* failed, the call has returned an error and the site has no container; the
\* call for that site that follows finds no container, issues no stop and no
\* remove, and when it returns a container it has created it.
C18_InterruptedRebuild ==
  /\ Interrupted => \A c \in containers : c.name # site.Hostname
  /\ prev.interrupted =>
       /\ ~Found
       /\ pc \notin {"inspect", "stop", "remove"}
       /\ SelectOps(ops, {"ContainerStop", "ContainerRemove"}) = <<>>
       /\ Returned =>
            /\ SelectOps(ops, Rebuilding) = <<Op("ContainerCreate", 0, <<>>)>>
            /\ \E c \in containers : c.id = res.id /\ c.name = site.Hostname

C18_Witness ==
  /\ prev.interrupted
  /\ Returned
  /\ \E c \in containers : c.id = res.id /\ c.state = "running"

\* The same entries, each as often, in some order.
IsPermutation(s, t) ==
  /\ Len(s) = Len(t)
  /\ \A x \in Range(s) \cup Range(t) :
       Cardinality({i \in 1..Len(s) : s[i] = x}) =
       Cardinality({i \in 1..Len(t) : t[i] = x})

\* Image, mount source, variables and extra hosts of the observed container
\* are the desired ones, the order of variables and hosts left aside.
Agree(s, c) ==
  /\ c.image = NginxImage(s.Version)
  /\ c.mount = GetAbsPath(Home, s)
  /\ IsPermutation(c.env, AsEnvs(s, "host.docker.internal"))
  /\ IsPermutation(c.extraHosts, ExtraHosts(s))

\* C19: an invocation that has inspected the container of the site has
\* returned its id with no create, stop or remove when image, mount source,
\* variables and extra hosts agree with the desired spec in some order, and
\* has gone into the rebuild of stop, remove and create in every other case.
C19_BinaryDrift ==
  Found =>
     IF Agree(site, details)
     THEN /\ Returned
          /\ res.id = details.id
          /\ SelectOps(ops, Rebuilding) = <<>>
     ELSE /\ ~(Returned /\ res.id = details.id)
          /\ \/ pc = "stop"
             \/ /\ SelectOps(ops, Rebuilding) # <<>>
                /\ IsPrefix(SelectOps(ops, Rebuilding),
                            <<Op("ContainerStop", details.id, <<>>),
                              Op("ContainerRemove", details.id, <<>>),
                              Op("ContainerCreate", 0, <<>>)>>)

C19_Witness ==
  /\ Returned
  /\ Found
  /\ res.id = details.id
  /\ Len(site.Envs) = 2
  /\ details.env # AsEnvs(site, "host.docker.internal")
  /\ IsPermutation(details.env, AsEnvs(site, "host.docker.internal"))

\* The places in the log where an inspect reported that the command is over.
Exited ==
  {i \in 1..Len(ops) :
     /\ ops[i].op = "ContainerExecInspect"
     /\ "running" \in DOMAIN ops[i]
     /\ ~ops[i].running}

\* C20: whatever exit code an inspect reports for a command that is over,
\* create goes on: it starts the container and creates the exec session of
\* the command that follows, and it returns the container id only when both
\* commands have been run.
C20_ExitCodeIgnored ==
  /\ \A i \in Exited :
       /\ i = Len(ops) => pc = "restart"
       /\ i < Len(ops) => ops[i + 1] = Op("ContainerStart", ops[i].id, <<>>)
       /\ i + 1 < Len(ops) =>
            /\ ops[i + 2].op = "ContainerExecCreate"
            /\ ops[i + 2].cmd # ops[i].cmd
       /\ Returned => res.id = ops[i].id
  /\ (Returned /\ Exited # {}) =>
       {ops[i].cmd : i \in Exited} = {CopyNginxFile, SetNginxPermissions}

C20_Witness ==
  /\ Returned
  /\ Cardinality(Exited) = 2
  /\ \A i \in Exited : ops[i].exitCode = 1

ExecCalls ==
  SelectOps(ops, {"ContainerExecCreate", "ContainerExecAttach",
                  "ContainerExecStart", "ContainerExecInspect"})

\* An inspect that returned and reported the session running.
SawRunning(o) ==
  o.op = "ContainerExecInspect" /\ "running" \in DOMAIN o /\ o.running

\* Each command's session is created, attached to, started and then polled.
ExecOrder ==
  \A i \in 1..Len(ExecCalls) :
    LET o == ExecCalls[i]
        before == ExecCalls[i - 1]
    IN  /\ o.op = "ContainerExecCreate" =>
             i = 1 \/ (before.op = "ContainerExecInspect" /\ before.cmd # o.cmd)
        /\ o.op = "ContainerExecAttach" =>
             i > 1 /\ before.op = "ContainerExecCreate" /\ before.cmd = o.cmd
        /\ o.op = "ContainerExecStart" =>
             i > 1 /\ before.op = "ContainerExecAttach" /\ before.cmd = o.cmd
        /\ o.op = "ContainerExecInspect" =>
             /\ i > 1 /\ before.cmd = o.cmd
             /\ \/ before.op = "ContainerExecStart"
                \/ SawRunning(before)

\* A step taken while create waits: nothing but an inspect moves the
\* invocation, and the wait goes on exactly when the inspect reported the
\* session running.
WaitEnds ==
  pc = "execInspect" =>
    IF ops' = ops
    THEN pc' = "execInspect"
    ELSE /\ Len(ops') = Len(ops) + 1
         /\ ops'[Len(ops')].op = "ContainerExecInspect"
         /\ pc' = "execInspect" <=> SawRunning(ops'[Len(ops')])

\* C21: for each command create creates the exec session, attaches to it,
\* starts it and then polls it; the wait ends exactly when an inspect
\* reports not running or fails, a cancellation of the context does not end
\* it, and when every session ends at some time every invocation returns.
C21_WaitTerminates ==
  /\ []ExecOrder
  /\ [][WaitEnds]_vars
  /\ (pc # "idle") ~> (pc = "idle")

\* The context was cancelled, an inspect issued after that reported the
\* session running, and the invocation went on to return the container.
C21_Witness ==
  /\ Returned
  /\ ctx.done
  /\ \E i \in (ctx.at + 1)..Len(ops) : SawRunning(ops[i])

\* The invocation has issued the call.
Issued(p, call) == call \in OpNames(boot[p].ops)

\* The networks the invocation got from its list that have exactly the name
\* of its environment.
ListedExact(p) ==
  {n \in boot[p].listed.networks : ExactName(n.name, boot[p].env)}

\* The invocations that issued a network create for the environment.
Creators(e) == {p \in Procs : boot[p].env = e /\ Issued(p, "NetworkCreate")}

\* C22: list-then-create under interleaving: an invocation issues the
\* network create exactly when its own list held no network of that name,
\* whatever the other invocation has done since; so a second network of the
\* same name exists only when both invocations listed before either had
\* created, and then both issued the create.
C22_ListThenCreate ==
  /\ \A p \in Procs :
       (boot[p].pc = "networkCreate" \/ Issued(p, "NetworkCreate")) =>
          ListedExact(p) = {}
  /\ \A e \in EnvNames :
       /\ Cardinality({n \in networks : n.name = e}) <= Cardinality(Creators(e))
       /\ Cardinality({n \in networks : n.name = e}) > 1 =>
            /\ Creators(e) = Procs
            /\ \A p \in Procs : boot[p].listed.networks = {}

\* Both invocations listed while the environment had no network, both
\* issued the create, and the environment has two networks of one name.
C22_Witness ==
  /\ \A p \in Procs :
       /\ boot[p].env = Dev
       /\ boot[p].listed.networks = {}
       /\ Issued(p, "NetworkCreate")
  /\ Cardinality({n \in networks : n.name = Dev}) = 2
  /\ hist[Dev].networks = 2

\* C23: the container whose id StartOrCreate returns without error is in
\* the running state, also when the call took the skip branch.
C23_ReturnedRunning ==
  Returned => \E c \in containers : c.id = res.id /\ c.state = "running"

\* C24: the volume an invocation of composer hands to the creation of its
\* container is a named volume that exists, whatever number of volumes the
\* label query returned.
C24_NamedVolume ==
  "ContainerCreate" \in OpNames(run.ops) =>
     /\ run.pathVolume.name # <<>>
     /\ run.pathVolume \in volumes

====
